---- MODULE Spec2Model ----
(***************************************************************************)
(* Hosting supervisor and traffic router of index.py: BotRegistry          *)
(* (register, unregister, shutdown), the child processes it launches, the  *)
(* log-relay tasks and the /site reverse proxy.  Every coroutine is cut at *)
(* its await points: one action is one run of a coroutine between two      *)
(* suspensions of the asyncio event loop.                                  *)
(***************************************************************************)
EXTENDS Integers, Sequences, FiniteSets, TLC

\* ------------------------------------------------------------------ bounds
MaxCalls == 2
MaxProcs == 2
\* the same for the specification that serves one request at a time
SoloCalls == 1
SoloProcs == 1
\* the lines a pipe holds unread
MaxPipe == 1
\* the clock is read at seconds 0..MaxClock of a day
MaxClock == 15

\* ------------------------------------------------------- program constants
BasePort == 10000
SiteUsername == "website"

Calls == 1..MaxCalls
Pids == 1..MaxProcs

SiteTokens == {"siteA", "siteB"}
BotTokens == {"1:bot"}
Tokens == SiteTokens \cup BotTokens
\* one more name, for the handlers that deploy more apps than the supervisor
\* holds at a time
MoreSiteTokens == {"siteC"}
AllTokens == Tokens \cup MoreSiteTokens

\* process_bot_code: is_site = ":" not in token
IsSiteToken(t) == t \in SiteTokens \cup MoreSiteTokens

\* hashlib.md5(token).hexdigest(): the digests of the tokens of the model
TokenHash(t) ==
    CASE t = "siteA" -> "19fecf00ef5efe1a40e186b174e3f7d0"
      [] t = "siteB" -> "e81532dc70e8643b795d1a1e992b6a0d"
      [] t = "1:bot" -> "86434934487bc5eb59a239a35ef93db3"
      [] t = "siteC" -> "2df7946c9daa216150ded7b95e425aa8"

\* TargetDir without the hash of the token: one directory for every app.
TargetDir_Shared(t) == <<"hosted_apps", "app_" \o TokenHash("siteA")>>

\* target_dir = hosted_apps/app_<md5(token)>
TargetDir(t) == <<"hosted_apps", "app_" \o TokenHash(t)>>

AppDirs == {TargetDir(t) : t \in AllTokens}

\* me.username as answered by get_me for a valid bot token
BotUsername(t) == "user_" \o t

\* Config.RATE_LIMIT_ACTIONS and Config.RATE_LIMIT_WINDOW
RateLimitActions == 5
RateLimitWindow == 10
\* timedelta.seconds is the part of the difference below one day
DaySeconds == 86400
\* text[:4000] of _log_stream
TextCut == 4000
\* the limit of the StreamReader of a subprocess pipe: a longer line makes
\* readline raise ValueError
StreamLimit == 65536

\* ----------------------------------------------------------------- staging
Files == {"main.py", "index.js", "package.json"}
NoFile == "-"
EmptyDir == [f \in Files |-> NoFile]

\* Uploaded documents of the model: what endswith() answers, whether the file
\* can be opened, and which recognised entries an archive holds.
Paths == {"app.zip", "both.zip", "empty.zip", "bad.zip", "bot.py", "bot.js",
          "bot.txt"}
EndsWith(path, ext) ==
    CASE ext = ".zip" -> path \in {"app.zip", "both.zip", "empty.zip", "bad.zip"}
      [] ext = ".py" -> path \in {"bot.py"}
      [] ext = ".js" -> path \in {"bot.js"}
      [] OTHER -> FALSE
Readable(path) == path # "bad.zip"
ZipEntries(path) ==
    CASE path = "app.zip" -> {"index.js"}
      [] path = "both.zip" -> {"main.py", "index.js"}
      [] OTHER -> {}

\* zip_ref.extractall(target_dir): archive members overwrite, the rest stays
ExtractAll(d, path) ==
    [f \in Files |-> IF f \in ZipEntries(path) THEN "zip:" \o path ELSE d[f]]

RuntimeOfEntry(f) ==
    CASE f = "main.py" -> "python"
      [] f = "index.js" -> "node"
      [] f = "package.json" -> "npm"

StageOk(d, runtime, entry) ==
    [ok |-> TRUE, dir |-> d, runtime |-> runtime, entry |-> entry, msg |-> ""]
StageFail(d, msg) ==
    [ok |-> FALSE, dir |-> d, runtime |-> "", entry |-> "", msg |-> msg]

\* StageOutcomes looking at code_path first: a file path that is given wins
\* over the inline text.
StageOutcomes_PathFirst(d, code_content, code_path) ==
    LET content == IF code_content = "" /\ code_path = ""
                   THEN "DEFAULT_SERVICE_CODE" ELSE code_content
    IN  IF code_path = ""
        THEN {StageOk([d EXCEPT !["main.py"] = content], "python", "main.py")}
        ELSE IF EndsWith(code_path, ".zip")
        THEN IF ~Readable(code_path)
             THEN {StageFail(d, "stage exception")}
             ELSE LET d2 == ExtractAll(d, code_path)
                      present == {f \in Files : d2[f] # NoFile}
                  IN  IF present = {}
                      THEN {StageFail(d2, "Could not find entry point")}
                      ELSE {StageOk(d2, RuntimeOfEntry(f), f) : f \in present}
        ELSE LET filename == IF EndsWith(code_path, ".py")
                             THEN "main.py" ELSE "index.js"
                 runtime == IF EndsWith(code_path, ".js")
                            THEN "node" ELSE "python"
             IN  IF ~Readable(code_path)
                 THEN {StageFail(d, "stage exception")}
                 ELSE {StageOk([d EXCEPT ![filename] = "file:" \o code_path],
                               runtime, filename)}

\* Lines 652-679 of register: the possible staging results for a working
\* directory holding d.  os.listdir gives the names in arbitrary order, so the
\* first recognised name of the loop is any recognised name that is present.
StageOutcomes(d, code_content, code_path) ==
    LET content == IF code_content = "" /\ code_path = ""
                   THEN "DEFAULT_SERVICE_CODE" ELSE code_content
    IN  IF content # ""
        THEN {StageOk([d EXCEPT !["main.py"] = content], "python", "main.py")}
        ELSE IF EndsWith(code_path, ".zip")
        THEN IF ~Readable(code_path)
             THEN {StageFail(d, "stage exception")}
             ELSE LET d2 == ExtractAll(d, code_path)
                      present == {f \in Files : d2[f] # NoFile}
                  IN  IF present = {}
                      THEN {StageFail(d2, "Could not find entry point")}
                      ELSE {StageOk(d2, RuntimeOfEntry(f), f) : f \in present}
        ELSE LET filename == IF EndsWith(code_path, ".py")
                             THEN "main.py" ELSE "index.js"
                 runtime == IF EndsWith(code_path, ".js")
                            THEN "node" ELSE "python"
             IN  IF ~Readable(code_path)
                 THEN {StageFail(d, "stage exception")}
                 ELSE {StageOk([d EXCEPT ![filename] = "file:" \o code_path],
                               runtime, filename)}

\* ---------------------------------------------------------------- registry
\* self._bots, a dict in insertion order: a sequence of records
Has(b, t) == \E i \in 1..Len(b) : b[i].token = t
Idx(b, t) == CHOOSE i \in 1..Len(b) : b[i].token = t
Get(b, t) == b[Idx(b, t)]
\* self._bots[token] = rec: an existing key keeps its position
Put(b, t, rec) ==
    IF Has(b, t) THEN [b EXCEPT ![Idx(b, t)] = rec] ELSE Append(b, rec)
\* del self._bots[token]
Del(b, t) == SelectSeq(b, LAMBDA r : r.token # t)
Keys(b) == [i \in 1..Len(b) |-> b[i].token]

\* port = 10000 + len(self._bots) + 1 for a site, None (0) otherwise
AllocatePort(b, is_site) == IF is_site THEN BasePort + Len(b) + 1 ELSE 0

Record(t, username, pid, port, is_site) ==
    [token |-> t, username |-> username, process |-> pid, port |-> port,
     type |-> IF is_site THEN "site" ELSE "bot"]


\* ------------------------------------------------------------------- state
VARIABLES
    bots,    \* BotRegistry._bots
    proc,    \* the child processes, as the asyncio transport sees them
    dirs,    \* the files of every working directory under hosted_apps
    relay,   \* per child, the _log_stream tasks that have not returned
    call,    \* the coroutines in flight: operation, position and locals
    ret,     \* the outcome of the coroutine that returned (or raised) last
    phase,   \* "up", "stopping" (shutdown running) or "down" (it returned)
    db,      \* the rows of the table bots, one per bot_token (UNIQUE)
    users,   \* RateLimitMiddleware.users: per user, the kept timestamps
    now,     \* the clock datetime.now() reads, in seconds
    handled, \* per user, the times of the last window at which a handler ran
    pipe,    \* per child and stream, the lines written and not yet read
    task     \* per child and stream, where the relay stands and what it sends

hostVars == <<db, users, now, handled, pipe, task>>
vars == <<bots, proc, dirs, relay, call, ret, phase,
          db, users, now, handled, pipe, task>>

\* cmd is the argument vector of create_subprocess_exec, cwd its directory
NoProc ==
    [st |-> "none", tok |-> "", port |-> 0, cmd |-> <<>>, cwd |-> <<>>,
     env |-> {}]

NoCall == [op |-> "none", pc |-> "idle", token |-> "", is_site |-> FALSE,
           content |-> "", path |-> "", port |-> 0, pid |-> 0, todo |-> <<>>,
           url |-> "", sent |-> 0, status |-> 0, body |-> "",
           caller |-> "", owner |-> 0, listed |-> <<>>, code_path |-> ""]

\* Telegram users of the platform, and a row of the table bots (is_active,
\* owner and code_path; the other columns play no part here)
Users == {1, 2}
NoRow ==
    [active |-> FALSE, owner |-> 0, code_path |-> "-",
     total_updates |-> 0, total_messages |-> 0]
Streams == {"stdout", "stderr"}
\* a _log_stream task suspended in stream.readline()
AtReadline == [pc |-> "readline", text |-> 0]

Returned(op, result, msg) == [op |-> op, result |-> result, msg |-> msg]

Init ==
    /\ bots = <<>>
    /\ proc = [p \in Pids |-> NoProc]
    /\ dirs = [d \in AppDirs |-> EmptyDir]
    /\ relay = [p \in Pids |-> {}]
    /\ call = [c \in Calls |-> NoCall]
    /\ ret = Returned("none", "", "")
    /\ phase = "up"
    /\ db = [t \in AllTokens |-> NoRow]
    /\ users = [u \in Users |-> <<>>]
    /\ now = 0
    /\ handled = [u \in Users |-> <<>>]
    /\ pipe = [p \in Pids |-> [s \in Streams |-> <<>>]]
    /\ task = [p \in Pids |-> [s \in Streams |-> AtReadline]]

\* A process that has exited and that no record, coroutine or relay task
\* refers to any more is forgotten, and its slot of the model is free again.
Referenced(p, b, cl, rl) ==
    \/ \E i \in 1..Len(b) : b[i].process = p
    \/ \E c \in Calls : cl[c].pid = p
    \/ rl[p] # {}
Reap(pr, b, cl, rl) ==
    [p \in Pids |-> IF pr[p].st = "gone" /\ ~Referenced(p, b, cl, rl)
                    THEN NoProc ELSE pr[p]]

Forked == {p \in Pids : proc[p].st # "none"}
InFlightRegisters ==
    {c \in Calls : call[c].op = "register" /\ call[c].pc = "get_me"}
FreePid == CHOOSE p \in Pids \ Forked : \A q \in Pids \ Forked : p <= q

\* Requests are accepted until shutdown has returned; the model accepts a
\* registration only while a process slot is left for it.
Accepting(c) == call[c].pc = "idle" /\ phase # "down"
SlotLeft == Cardinality(Forked) + Cardinality(InFlightRegisters) < MaxProcs

\* ---------------------------------------------------------------- register
\* The payloads register is called with (code_content, code_path).
DefaultPayload == <<"", "">>
Payloads == {DefaultPayload, <<"", "empty.zip">>, <<"", "bad.zip">>}

\* lines 691-692: the argument vector of the child
Cmd(runtime, entry) ==
    IF runtime = "npm" THEN <<"npm", "start">> ELSE <<runtime, entry>>

\* register is awaited by a handler (process_bot_code, "deploy"), by
\* load_bots ("replay") or stands for itself; Carry keeps the locals of the
\* awaiting coroutine and After is that coroutine once register has returned.
Carry(k) ==
    [NoCall EXCEPT !.caller = k.caller, !.owner = k.owner, !.todo = k.todo,
                   !.listed = k.listed, !.code_path = k.code_path]
After(k, ok) ==
    IF k.caller = "replay"
    THEN [Carry(k) EXCEPT !.op = "replay", !.pc = "loop"]
    ELSE IF k.caller = "deploy" /\ ok
    THEN [Carry(k) EXCEPT !.op = "deploy", !.pc = "add_bot",
                          !.token = k.token, !.is_site = k.is_site]
    ELSE NoCall

\* os.environ of the platform after load_dotenv, as name-value pairs: the
\* token of the main bot that Config reads from it, and the rest
MainBotToken == "0:main"
PlatformEnv == {<<"MAIN_BOT_TOKEN", MainBotToken>>, <<"PATH", "/usr/bin">>}
\* env[name] = value
SetEnv(env, name, value) ==
    {e \in env : e[1] # name} \cup {<<name, value>>}
\* lines 686-690: the copy of os.environ with BOT_TOKEN, PORT (str(port),
\* when a port was allocated) and PYTHONIOENCODING set
ChildEnv(t, port) ==
    LET e1 == SetEnv(PlatformEnv, "BOT_TOKEN", t)
        e2 == IF port # 0 THEN SetEnv(e1, "PORT", ToString(port)) ELSE e1
    IN  SetEnv(e2, "PYTHONIOENCODING", "utf-8")

\* lines 635-640: "website" for a site, me.username for a bot
Username(t, is_site) == IF is_site THEN SiteUsername ELSE BotUsername(t)

\* RegisterStage with the record stored before create_subprocess_exec is
\* awaited, so that a failed launch leaves it behind.
RegisterStage_RecordFirst(c, t, is_site, content, path) ==
    \E o \in StageOutcomes(dirs[TargetDir(t)], content, path) :
        /\ dirs' = [dirs EXCEPT ![TargetDir(t)] = o.dir]
        /\ UNCHANGED <<relay, phase>>
        /\ IF ~o.ok
           THEN /\ call' = [call EXCEPT ![c] = After(call[c], FALSE)]
                /\ ret' = Returned("register", "False", o.msg)
                /\ UNCHANGED <<bots, proc>>
           ELSE LET port == AllocatePort(bots, is_site)
                IN  \E spawned \in BOOLEAN :
                      IF spawned
                      THEN /\ proc' = [proc EXCEPT ![FreePid] =
                                  [st |-> "running", tok |-> t, port |-> port,
                                   cmd |-> Cmd(o.runtime, o.entry),
                                   cwd |-> TargetDir(t),
                                   env |-> ChildEnv(t, port)]]
                           /\ call' = [call EXCEPT ![c] =
                                  [Carry(call[c]) EXCEPT !.op = "register",
                                      !.pc = "spawn", !.token = t,
                                      !.is_site = is_site,
                                      !.port = port, !.pid = FreePid]]
                           /\ UNCHANGED <<bots, ret>>
                      ELSE /\ bots' = Put(bots, t,
                                  Record(t, Username(t, is_site), 0, port,
                                         is_site))
                           /\ call' = [call EXCEPT ![c] =
                                  After(call[c], FALSE)]
                           /\ ret' = Returned("register", "False",
                                              "spawn exception")
                           /\ UNCHANGED proc
        /\ UNCHANGED hostVars

\* Lines 646-700: staging, port allocation and the call of
\* create_subprocess_exec, which forks the child and suspends (or raises).
RegisterStage(c, t, is_site, content, path) ==
    \E o \in StageOutcomes(dirs[TargetDir(t)], content, path) :
        /\ dirs' = [dirs EXCEPT ![TargetDir(t)] = o.dir]
        /\ UNCHANGED <<bots, relay, phase>>
        /\ IF ~o.ok
           THEN /\ call' = [call EXCEPT ![c] = After(call[c], FALSE)]
                /\ ret' = Returned("register", "False", o.msg)
                /\ UNCHANGED proc
           ELSE LET port == AllocatePort(bots, is_site)
                IN  \E spawned \in BOOLEAN :
                      IF spawned
                      THEN /\ proc' = [proc EXCEPT ![FreePid] =
                                  [st |-> "running", tok |-> t, port |-> port,
                                   cmd |-> Cmd(o.runtime, o.entry),
                                   cwd |-> TargetDir(t),
                                   env |-> ChildEnv(t, port)]]
                           /\ call' = [call EXCEPT ![c] =
                                  [Carry(call[c]) EXCEPT !.op = "register",
                                      !.pc = "spawn", !.token = t,
                                      !.is_site = is_site,
                                      !.port = port, !.pid = FreePid]]
                           /\ UNCHANGED ret
                      ELSE /\ call' = [call EXCEPT ![c] =
                                  After(call[c], FALSE)]
                           /\ ret' = Returned("register", "False",
                                              "spawn exception")
                           /\ UNCHANGED proc
        /\ UNCHANGED hostVars

\* register(token, ..., is_site=True): no await before staging
RegisterSite(c, t, content, path) ==
    /\ Accepting(c) /\ SlotLeft
    /\ RegisterStage(c, t, TRUE, content, path)

\* register(token, ..., is_site=False): Bot(token) and the await of get_me;
\* Bot() raises on a token that has no colon
RegisterBot(c, t, content, path) ==
    /\ Accepting(c) /\ SlotLeft
    /\ IF IsSiteToken(t)
       THEN /\ ret' = Returned("register", "False", "token exception")
            /\ UNCHANGED call
       ELSE /\ call' = [call EXCEPT ![c] =
                [NoCall EXCEPT !.op = "register", !.pc = "get_me", !.token = t,
                               !.content = content, !.path = path]]
            /\ UNCHANGED ret
    /\ UNCHANGED <<bots, proc, dirs, relay, phase>>
    /\ UNCHANGED hostVars

\* lines 641-643: get_me failed or timed out
RegisterInvalidToken(c) ==
    /\ call[c].op = "register" /\ call[c].pc = "get_me"
    /\ call' = [call EXCEPT ![c] = After(call[c], FALSE)]
    /\ ret' = Returned("register", "False", "Invalid Token")
    /\ UNCHANGED <<bots, proc, dirs, relay, phase>>
    /\ UNCHANGED hostVars

\* lines 640, 644-700: get_me answered
RegisterGotMe(c) ==
    /\ call[c].op = "register" /\ call[c].pc = "get_me"
    /\ RegisterStage(c, call[c].token, FALSE, call[c].content, call[c].path)

\* RegisterLaunched returning success before the record is stored (the store
\* left to a later task).
RegisterLaunched_ReturnFirst(c) ==
    /\ call[c].op = "register" /\ call[c].pc = "spawn"
    /\ relay' = [relay EXCEPT ![call[c].pid] = {"stdout", "stderr"}]
    /\ call' = [call EXCEPT ![c] = After(call[c], TRUE)]
    /\ ret' = Returned("register", "True",
                       Username(call[c].token, call[c].is_site))
    /\ UNCHANGED <<bots, proc, dirs, phase>>
    /\ UNCHANGED hostVars

\* lines 694-728: create_subprocess_exec returned the process; the two relay
\* tasks are created and the record is stored, with no await in between
RegisterLaunched(c) ==
    /\ call[c].op = "register" /\ call[c].pc = "spawn"
    /\ relay' = [relay EXCEPT ![call[c].pid] = {"stdout", "stderr"}]
    /\ bots' = Put(bots, call[c].token,
                   Record(call[c].token,
                          Username(call[c].token, call[c].is_site),
                          call[c].pid, call[c].port, call[c].is_site))
    /\ call' = [call EXCEPT ![c] = After(call[c], TRUE)]
    /\ ret' = Returned("register", "True",
                       Username(call[c].token, call[c].is_site))
    /\ proc' = Reap(proc, bots', call', relay')
    /\ UNCHANGED <<dirs, phase>>
    /\ UNCHANGED hostVars

\* -------------------------------------------------------------- unregister
\* UnregBegin answering True for an identity that has no record.
UnregBegin_UnknownIsTrue(b, pr, t) ==
    IF ~Has(b, t)
    THEN [kind |-> "True", bots |-> b, pid |-> 0]
    ELSE LET p == Get(b, t).process
         IN  IF pr[p].st = "gone"
             THEN [kind |-> "True", bots |-> Del(b, t), pid |-> 0]
             ELSE [kind |-> "wait", bots |-> b, pid |-> p]

\* UnregBegin without the except ProcessLookupError clause: terminate() on a
\* process that is gone raises out of unregister and the record stays.
UnregBegin_LookupErrorRaised(b, pr, t) ==
    IF ~Has(b, t)
    THEN [kind |-> "False", bots |-> b, pid |-> 0]
    ELSE LET p == Get(b, t).process
         IN  IF pr[p].st = "gone"
             THEN [kind |-> "ProcessLookupError", bots |-> b, pid |-> 0]
             ELSE [kind |-> "wait", bots |-> b, pid |-> p]

\* Lines 735-748 up to the await: the lookup, process.terminate() and, for a
\* process that is already gone (ProcessLookupError), lines 752-758 as well.
UnregBegin(b, pr, t) ==
    IF ~Has(b, t)
    THEN [kind |-> "False", bots |-> b, pid |-> 0]
    ELSE LET p == Get(b, t).process
         IN  IF pr[p].st = "gone"
             THEN [kind |-> "True", bots |-> Del(b, t), pid |-> 0]
             ELSE [kind |-> "wait", bots |-> b, pid |-> p]

\* Lines 744-758 after the await: wait_for returned, or timed out and the
\* process is killed; then del self._bots[token], a KeyError if the key left.
UnregEnd(b, t, timedOut) ==
    IF Has(b, t)
    THEN [kind |-> "True", bots |-> Del(b, t),
          how |-> IF timedOut THEN "killed" ELSE "exited"]
    ELSE [kind |-> "KeyError", bots |-> b,
          how |-> IF timedOut THEN "killed" ELSE "exited"]

UnregisterStart(c, t) ==
    /\ Accepting(c)
    /\ LET o == UnregBegin(bots, proc, t)
       IN  /\ bots' = o.bots
           /\ IF o.kind = "wait"
              THEN /\ call' = [call EXCEPT ![c] =
                          [NoCall EXCEPT !.op = "unregister", !.pc = "wait",
                                         !.token = t, !.pid = o.pid]]
                   /\ UNCHANGED ret
              ELSE /\ ret' = Returned("unregister", o.kind,
                                IF o.kind = "True" THEN "gone" ELSE "")
                   /\ UNCHANGED call
    /\ proc' = Reap(proc, bots', call', relay)
    /\ UNCHANGED <<dirs, relay, phase>>
    /\ UNCHANGED hostVars

UnregisterResume(c, timedOut) ==
    /\ call[c].op = "unregister" /\ call[c].pc = "wait"
    /\ proc[call[c].pid].st = (IF timedOut THEN "running" ELSE "gone")
    /\ LET o == UnregEnd(bots, call[c].token, timedOut)
       IN  /\ bots' = o.bots
           /\ ret' = Returned("unregister", o.kind, o.how)
    /\ call' = [call EXCEPT ![c] = NoCall]
    /\ proc' = Reap(proc, bots', call', relay)
    /\ UNCHANGED <<dirs, relay, phase>>
    /\ UNCHANGED hostVars

\* the child exited within the grace period
UnregisterWaited(c) == UnregisterResume(c, FALSE)
\* asyncio.TimeoutError after 5 seconds: process.kill()
UnregisterTimedOut(c) == UnregisterResume(c, TRUE)

\* ---------------------------------------------------------------- shutdown
\* Lines 795-797: the loop over list(self._bots.keys()), run until one
\* unregister suspends in its wait or the list is done and _bots is cleared.
RECURSIVE ShutdownLoop(_, _, _)
ShutdownLoop(b, pr, todo) ==
    IF todo = <<>>
    THEN [kind |-> "done", bots |-> <<>>, todo |-> <<>>, pid |-> 0]
    ELSE LET o == UnregBegin(b, pr, Head(todo))
         IN  IF o.kind = "wait"
             THEN [kind |-> "wait", bots |-> o.bots, todo |-> todo,
                   pid |-> o.pid]
             ELSE ShutdownLoop(o.bots, pr, Tail(todo))

ShutdownStep(c, r) ==
    /\ bots' = r.bots
    /\ IF r.kind = "wait"
       THEN /\ call' = [call EXCEPT ![c] =
                   [NoCall EXCEPT !.op = "shutdown", !.pc = "wait",
                                  !.token = Head(r.todo), !.todo = r.todo,
                                  !.pid = r.pid]]
            /\ phase' = "stopping"
            /\ UNCHANGED ret
       ELSE /\ call' = [call EXCEPT ![c] = NoCall]
            /\ ret' = Returned("shutdown", r.kind, "")
            /\ phase' = "down"
    /\ proc' = Reap(proc, bots', call', relay)
    /\ UNCHANGED <<dirs, relay>>
    /\ UNCHANGED hostVars

ShutdownStart(c) ==
    /\ call[c].pc = "idle" /\ phase = "up"
    /\ ShutdownStep(c, ShutdownLoop(bots, proc, Keys(bots)))

ShutdownResume(c, timedOut) ==
    /\ call[c].op = "shutdown" /\ call[c].pc = "wait"
    /\ proc[call[c].pid].st = (IF timedOut THEN "running" ELSE "gone")
    /\ LET o == UnregEnd(bots, call[c].token, timedOut)
       IN  IF o.kind = "KeyError"
           THEN ShutdownStep(c, [kind |-> "KeyError", bots |-> o.bots,
                                 todo |-> <<>>, pid |-> 0])
           ELSE ShutdownStep(c, ShutdownLoop(o.bots, proc,
                                             Tail(call[c].todo)))

ShutdownWaited(c) == ShutdownResume(c, FALSE)
ShutdownTimedOut(c) == ShutdownResume(c, TRUE)

\* ------------------------------------------------- children and log relays
\* The child exits: by itself, on the termination signal or on the kill.
ChildExit(p) ==
    /\ proc[p].st = "running"
    /\ proc' = Reap([proc EXCEPT ![p].st = "gone"], bots, call, relay)
    /\ UNCHANGED <<bots, dirs, relay, call, ret, phase>>
    /\ UNCHANGED hostVars

\* Lines 705-706 of _log_stream: readline gives b"" at end of file, once the
\* lines written before the exit are read, and the task returns; nothing else
\* is done about the exit.
RelayEOF(p, s) ==
    /\ s \in relay[p]
    /\ proc[p].st = "gone"
    /\ pipe[p][s] = <<>> /\ task[p][s].pc = "readline"
    /\ relay' = [relay EXCEPT ![p] = @ \ {s}]
    /\ proc' = Reap(proc, bots, call, relay')
    /\ UNCHANGED <<bots, dirs, call, ret, phase>>
    /\ UNCHANGED hostVars

\* A line of output is <<pad, n>>: pad blanks, n characters that are not
\* white space and the newline.
Lines == {<<2, 0>>, <<1, 2>>, <<0, TextCut + 1>>, <<0, StreamLimit>>}
RawLen(line) == line[1] + line[2] + 1
\* line.decode('utf-8', errors='ignore').strip(), as the length of the text
Strip(line) == line[2]
\* The text handed to send_message without the cut.
Cut_Whole(n) == n
\* text[:4000], as the length of the text
Cut(n) == IF n > TextCut THEN TextCut ELSE n

\* The child writes a line to its stdout or stderr.
ChildWrite(p, s, line) ==
    /\ proc[p].st = "running"
    /\ s \in relay[p]
    /\ Len(pipe[p][s]) < MaxPipe
    /\ pipe' = [pipe EXCEPT ![p][s] = Append(@, line)]
    /\ UNCHANGED <<bots, proc, dirs, relay, call, ret, phase,
                   db, users, now, handled, task>>

\* Lines 705-714: readline returns a line.  A line beyond the limit of the
\* reader raises ValueError, which the outer except swallows: the task
\* returns and the rest of the stream is never read.  A line whose text is
\* empty is dropped; any other is handed, cut, to send_message
\* (self._main_bot is set at line 1577, before anything is registered).
RelayRead(p, s) ==
    /\ s \in relay[p]
    /\ task[p][s].pc = "readline"
    /\ pipe[p][s] # <<>>
    /\ LET line == Head(pipe[p][s])
           text == Strip(line)
       IN  IF RawLen(line) > StreamLimit
           THEN /\ relay' = [relay EXCEPT ![p] = @ \ {s}]
                /\ pipe' = [pipe EXCEPT ![p][s] = <<>>]
                /\ UNCHANGED task
           ELSE /\ pipe' = [pipe EXCEPT ![p][s] = Tail(@)]
                /\ task' = IF text > 0
                           THEN [task EXCEPT ![p][s] =
                                   [pc |-> "send_message", text |-> Cut(text)]]
                           ELSE task
                /\ UNCHANGED relay
    /\ proc' = Reap(proc, bots, call, relay')
    /\ UNCHANGED <<bots, dirs, call, ret, phase, db, users, now, handled>>

\* Lines 710-715: send_message returned; the task sleeps 0.1 s.
RelaySent(p, s) ==
    /\ s \in relay[p]
    /\ task[p][s].pc = "send_message"
    /\ task' = [task EXCEPT ![p][s].pc = "sleep"]
    /\ UNCHANGED <<bots, proc, dirs, relay, call, ret, phase,
                   db, users, now, handled, pipe>>

\* Line 716: send_message raised; except: pass, and the loop goes on.
RelaySendFailed(p, s) ==
    /\ s \in relay[p]
    /\ task[p][s].pc = "send_message"
    /\ task' = [task EXCEPT ![p][s] = AtReadline]
    /\ UNCHANGED <<bots, proc, dirs, relay, call, ret, phase,
                   db, users, now, handled, pipe>>

\* Line 715: the sleep is over; back to readline.
RelaySlept(p, s) ==
    /\ s \in relay[p]
    /\ task[p][s].pc = "sleep"
    /\ task' = [task EXCEPT ![p][s] = AtReadline]
    /\ UNCHANGED <<bots, proc, dirs, relay, call, ret, phase,
                   db, users, now, handled, pipe>>

\* a step of the relay task of stream s of child p
RelayStep(p, s) ==
    \/ RelayRead(p, s)
    \/ RelaySent(p, s) \/ RelaySendFailed(p, s) \/ RelaySlept(p, s)
    \/ RelayEOF(p, s)

\* -------------------------------------------------------------- site_proxy
\* The {token} segments, the {path} remainders and the query strings of the
\* requests, and the answers a child gives
Segments == Tokens \cup {SiteUsername} \cup {BotUsername(t) : t \in BotTokens}
Requests == {<<"", "">>, <<"ping", "">>, <<"ping", "a=1">>}
Statuses == {200, 201}
Responses == {<<200, "">>, <<201, "ok">>}
OneRequest == {<<"ping", "a=1">>}
OneResponse == {<<201, "ok">>}

Matches(b, seg) ==
    {i \in 1..Len(b) : b[i].username = seg \/ b[i].token = seg}
\* lines 1607-1610: the first record, in dict order, whose username or token
\* is the path segment; 0 when there is none
Lookup(b, seg) ==
    IF Matches(b, seg) = {} THEN 0
    ELSE CHOOSE i \in Matches(b, seg) : \A j \in Matches(b, seg) : i <= j

\* lines 1616-1618: the target of the downstream request
Url(port, path, query) ==
    "http://localhost:" \o ToString(port) \o "/" \o path
        \o (IF query # "" THEN "?" \o query ELSE "")

\* ProxyLookup without the test of the port: a record that has none is
\* forwarded to as well.
ProxyLookup_NoPortCheck(c, seg, path, query) ==
    /\ Accepting(c)
    /\ LET i == Lookup(bots, seg)
       IN  IF i = 0
           THEN /\ ret' = Returned("proxy", "404", "Site Not Found")
                /\ UNCHANGED call
           ELSE /\ call' = [call EXCEPT ![c] =
                       [NoCall EXCEPT !.op = "proxy", !.pc = "fwd",
                                      !.token = bots[i].token,
                                      !.port = bots[i].port,
                                      !.url = Url(bots[i].port, path, query),
                                      !.sent = 1]]
                /\ UNCHANGED ret
    /\ UNCHANGED <<bots, proc, dirs, relay, phase>>
    /\ UNCHANGED hostVars

\* lines 1605-1623: resolve, answer 404 or issue the one downstream request
\* and suspend until the child answers
ProxyLookup(c, seg, path, query) ==
    /\ Accepting(c)
    /\ LET i == Lookup(bots, seg)
       IN  IF i = 0 \/ bots[i].port = 0
           THEN /\ ret' = Returned("proxy", "404", "Site Not Found")
                /\ UNCHANGED call
           ELSE /\ call' = [call EXCEPT ![c] =
                       [NoCall EXCEPT !.op = "proxy", !.pc = "fwd",
                                      !.token = bots[i].token,
                                      !.port = bots[i].port,
                                      !.url = Url(bots[i].port, path, query),
                                      !.sent = 1]]
                /\ UNCHANGED ret
    /\ UNCHANGED <<bots, proc, dirs, relay, phase>>
    /\ UNCHANGED hostVars

Listening(port) == {p \in Pids : proc[p].st = "running" /\ proc[p].port = port}

\* line 1623: session.request returned: a child listening on the port sent
\* its status line and headers; the body is awaited next
ProxyConnected(c, status, body) ==
    /\ call[c].op = "proxy" /\ call[c].pc = "fwd"
    /\ Listening(call[c].port) # {}
    /\ call' = [call EXCEPT ![c].pc = "read", ![c].status = status,
                            ![c].body = body]
    /\ UNCHANGED <<bots, proc, dirs, relay, ret, phase>>
    /\ UNCHANGED hostVars

\* ProxyAnswered answering 200 whatever the child's status was.
ProxyAnswered_Always200(c) ==
    /\ call[c].op = "proxy" /\ call[c].pc = "read"
    /\ call' = [call EXCEPT ![c] = NoCall]
    /\ ret' = Returned("proxy", ToString(200), call[c].body)
    /\ UNCHANGED <<bots, proc, dirs, relay, phase>>
    /\ UNCHANGED hostVars

\* line 1624: resp.read() returned and the answer is built from
\* resp.status and the body
ProxyAnswered(c) ==
    /\ call[c].op = "proxy" /\ call[c].pc = "read"
    /\ call' = [call EXCEPT ![c] = NoCall]
    /\ ret' = Returned("proxy", ToString(call[c].status), call[c].body)
    /\ UNCHANGED <<bots, proc, dirs, relay, phase>>
    /\ UNCHANGED hostVars

\* ProxyFailed issuing the downstream request once more before giving up.
ProxyFailed_Retry(c) ==
    /\ call[c].op = "proxy" /\ call[c].pc \in {"fwd", "read"}
    /\ IF call[c].sent < 2
       THEN /\ call' = [call EXCEPT ![c].pc = "fwd", ![c].sent = @ + 1]
            /\ UNCHANGED ret
       ELSE /\ call' = [call EXCEPT ![c] = NoCall]
            /\ ret' = Returned("proxy", "502", "Proxy Error: connection")
    /\ UNCHANGED <<bots, proc, dirs, relay, phase>>
    /\ UNCHANGED hostVars

\* lines 1625-1626: the downstream request raised a connection error (refused
\* when nothing listens on the port, reset or closed otherwise)
ProxyFailed(c) ==
    /\ call[c].op = "proxy" /\ call[c].pc \in {"fwd", "read"}
    /\ call' = [call EXCEPT ![c] = NoCall]
    /\ ret' = Returned("proxy", "502", "Proxy Error: connection")
    /\ UNCHANGED <<bots, proc, dirs, relay, phase>>
    /\ UNCHANGED hostVars

\* lines 1619-1626: session.request is given no timeout, so the default of
\* ClientSession applies; its asyncio.TimeoutError is an Exception like any
\* other and takes the same except clause
ProxyTimedOut(c) ==
    /\ call[c].op = "proxy" /\ call[c].pc \in {"fwd", "read"}
    /\ Listening(call[c].port) # {}
    /\ call' = [call EXCEPT ![c] = NoCall]
    /\ ret' = Returned("proxy", "502", "Proxy Error: timeout")
    /\ UNCHANGED <<bots, proc, dirs, relay, phase>>
    /\ UNCHANGED hostVars

\* ---------------------------------------------------------- hosted_webhook
\* The request bodies of the model: one that is not JSON, an update without
\* and an update with a message
Bodies == {"not json", "{}", "{message}"}
JsonValid(body) == body # "not json"

OkBody == "{ok: true}"
ErrorBody(e) == "{ok: false, error: " \o e \o "}"

\* Lines 768-791 of process_update up to its first await: None for a token
\* without a record; otherwise the counter of the record is incremented, which
\* raises KeyError on a record that has no 'total_updates' key, and the except
\* clause turns the exception into a result.
ProcessUpdate(b, t, update_data) ==
    IF ~Has(b, t)
    THEN [kind |-> "None", bots |-> b, body |-> ""]
    ELSE IF "total_updates" \notin DOMAIN Get(b, t)
    THEN [kind |-> "error", bots |-> b, body |-> ErrorBody("'total_updates'")]
    ELSE [kind |-> "ok",
          bots |-> [b EXCEPT ![Idx(b, t)].total_updates = @ + 1],
          body |-> OkBody]

\* is_message = 'message' in update_data
IsMessage(update_data) == update_data = "{message}"
\* Database.increment_stats, lines 436-476: nothing without an active row of
\* the token, else one of the two totals of the row goes up by one
IncrementStats(d, t, is_message) ==
    IF ~d[t].active THEN d
    ELSE IF is_message
    THEN [d EXCEPT ![t].total_messages = @ + 1]
    ELSE [d EXCEPT ![t].total_updates = @ + 1]

\* lines 1455-1459: the handler suspends in request.json()
FeedStart(c, t, body) ==
    /\ Accepting(c)
    /\ call' = [call EXCEPT ![c] =
           [NoCall EXCEPT !.op = "feed", !.pc = "json", !.token = t,
                          !.body = body]]
    /\ UNCHANGED <<bots, proc, dirs, relay, ret, phase>>
    /\ UNCHANGED hostVars

\* lines 1459-1468: request.json() returned or raised; process_update;
\* 404 for None, the result as a JSON answer (status 200) otherwise, and 500
\* for an exception that reaches the handler
FeedParsed(c) ==
    /\ call[c].op = "feed" /\ call[c].pc = "json"
    /\ IF ~JsonValid(call[c].body)
       THEN /\ ret' = Returned("feed", "500", "")
            /\ UNCHANGED <<bots, db>>
       ELSE LET r == ProcessUpdate(bots, call[c].token, call[c].body)
            IN  /\ bots' = r.bots
                /\ db' = IF r.kind = "ok"
                         THEN IncrementStats(db, call[c].token,
                                             IsMessage(call[c].body))
                         ELSE db
                /\ ret' = IF r.kind = "None"
                          THEN Returned("feed", "404", "")
                          ELSE Returned("feed", "200", r.body)
    /\ call' = [call EXCEPT ![c] = NoCall]
    /\ UNCHANGED <<proc, dirs, relay, phase>>
    /\ UNCHANGED <<users, now, handled, pipe, task>>

\* ------------------------------------------------ deploy, restart, replay
MaxBotsPerUser == 3

\* What process_bot_code hands to register: the text of the message, or the
\* path of the downloaded document, or neither
InlineText == "print(1)"
DeployPayloads ==
    {<<InlineText, "">>, <<"", "">>} \cup {<<"", path>> : path \in Paths}

\* Database.add_bot: a new row, or on conflict the old row made active with
\* the new code_path (owner_id is not updated)
AddBot(d, owner, t, code_path) ==
    IF d[t] = NoRow
    THEN [d EXCEPT ![t] = [NoRow EXCEPT !.active = TRUE, !.owner = owner,
                                        !.code_path = code_path]]
    ELSE [d EXCEPT ![t].active = TRUE, ![t].code_path = code_path]

ActiveOf(d, u) == {t \in AllTokens : d[t].active /\ d[t].owner = u}

\* process_bot_code, lines 1201-1221: the handler of user u in state
\* waiting_for_code with bot_token t, up to the await of register
DeployStart(c, u, t, content, path) ==
    /\ Accepting(c)
    /\ call' = [call EXCEPT ![c] =
           [NoCall EXCEPT !.op = "deploy", !.pc = "enter", !.caller = "deploy",
                          !.owner = u, !.token = t,
                          !.is_site = IsSiteToken(t),
                          !.content = content, !.path = path,
                          !.code_path = path]]
    /\ UNCHANGED <<bots, proc, dirs, relay, ret, phase>>
    /\ UNCHANGED hostVars

\* line 1222: register is entered with is_site as computed from the token
DeployRegister(c) ==
    /\ call[c].op = "deploy" /\ call[c].pc = "enter"
    /\ SlotLeft
    /\ IF call[c].is_site
       THEN RegisterStage(c, call[c].token, TRUE, call[c].content,
                          call[c].path)
       ELSE /\ call' = [call EXCEPT ![c].op = "register", ![c].pc = "get_me"]
            /\ UNCHANGED <<bots, proc, dirs, relay, ret, phase>>
            /\ UNCHANGED hostVars

\* lines 1227-1228: register returned success and the row is written
DeployAddBot(c) ==
    /\ call[c].op = "deploy" /\ call[c].pc = "add_bot"
    /\ db' = AddBot(db, call[c].owner, call[c].token, call[c].code_path)
    /\ call' = [call EXCEPT ![c] = NoCall]
    /\ ret' = Returned("deploy", "added", call[c].token)
    /\ UNCHANGED <<bots, proc, dirs, relay, phase>>
    /\ UNCHANGED <<users, now, handled, pipe, task>>

\* process_remove_select, lines 905-911: the message "x @username" of user
\* u; the row is selected by bot_username and is_active alone, and fetchone
\* gives any one of the rows that match.  No row: the handler returns.
Usernames == {Username(t, IsSiteToken(t)) : t \in AllTokens}
RowsNamed(d, username) ==
    {t \in AllTokens : d[t].active /\ Username(t, IsSiteToken(t)) = username}
RemoveStart(c, u, username) ==
    /\ Accepting(c)
    /\ IF RowsNamed(db, username) = {}
       THEN /\ ret' = Returned("remove", "not found", username)
            /\ UNCHANGED call
       ELSE /\ \E t \in RowsNamed(db, username) :
                 call' = [call EXCEPT ![c] =
                     [NoCall EXCEPT !.op = "remove", !.pc = "enter",
                                    !.caller = "remove", !.owner = u,
                                    !.token = t]]
            /\ UNCHANGED ret
    /\ UNCHANGED <<bots, proc, dirs, relay, phase>>
    /\ UNCHANGED hostVars

\* line 914: registry.unregister(token) up to its await, or to its return
\* when it does not wait
RemoveUnregister(c) ==
    /\ call[c].op = "remove" /\ call[c].pc = "enter"
    /\ LET o == UnregBegin(bots, proc, call[c].token)
       IN  /\ bots' = o.bots
           /\ call' = [call EXCEPT ![c].pid = o.pid,
                                   ![c].pc = IF o.kind = "wait" THEN "wait"
                                             ELSE "remove_bot"]
    /\ proc' = Reap(proc, bots', call', relay)
    /\ UNCHANGED <<dirs, relay, ret, phase>>
    /\ UNCHANGED hostVars

\* unregister resumes from the grace wait inside the handler; its KeyError
\* leaves the handler before remove_bot
RemoveResume(c, timedOut) ==
    /\ call[c].op = "remove" /\ call[c].pc = "wait"
    /\ proc[call[c].pid].st = (IF timedOut THEN "running" ELSE "gone")
    /\ LET o == UnregEnd(bots, call[c].token, timedOut)
       IN  /\ bots' = o.bots
           /\ IF o.kind = "True"
              THEN /\ call' = [call EXCEPT ![c].pid = 0,
                                           ![c].pc = "remove_bot"]
                   /\ UNCHANGED ret
              ELSE /\ call' = [call EXCEPT ![c] = NoCall]
                   /\ ret' = Returned("remove", o.kind, o.how)
    /\ proc' = Reap(proc, bots', call', relay)
    /\ UNCHANGED <<dirs, relay, phase>>
    /\ UNCHANGED hostVars

\* line 915 and Database.remove_bot (427-434): the row is made inactive
RemoveBot(c) ==
    /\ call[c].op = "remove" /\ call[c].pc = "remove_bot"
    /\ db' = [db EXCEPT ![call[c].token].active = FALSE]
    /\ call' = [call EXCEPT ![c] = NoCall]
    /\ ret' = Returned("remove", "removed", call[c].token)
    /\ UNCHANGED <<bots, proc, dirs, relay, phase>>
    /\ UNCHANGED <<users, now, handled, pipe, task>>

\* The rows load_bots iterates over: SELECT ... WHERE is_active = 1 has no
\* ORDER BY, so any order of the active rows
RECURSIVE Orders(_)
Orders(S) ==
    IF S = {} THEN {<<>>}
    ELSE UNION {{<<t>> \o rest : rest \in Orders(S \ {t})} : t \in S}
ActiveRows(d) == Orders({t \in AllTokens : d[t].active})

\* The platform is stopped with its children and started again: a new
\* registry, the table as it was, and on_startup (lines 1525-1545) creates the
\* task load_bots over the rows it fetched.
Restart(c) ==
    /\ \A k \in Calls : call[k].pc = "idle"
    /\ \E rows \in ActiveRows(db) :
          call' = [call EXCEPT ![c] =
              [NoCall EXCEPT !.op = "replay", !.pc = "loop",
                             !.caller = "replay",
                             !.todo = rows, !.listed = rows]]
    /\ bots' = <<>>
    /\ proc' = [p \in Pids |-> NoProc]
    /\ relay' = [p \in Pids |-> {}]
    /\ pipe' = [p \in Pids |-> [s \in Streams |-> <<>>]]
    /\ task' = [p \in Pids |-> [s \in Streams |-> AtReadline]]
    /\ ret' = Returned("restart", "", "")
    /\ phase' = "up"
    /\ UNCHANGED <<dirs, db, users, now, handled>>

\* lines 1533-1541 and 636-639: load_bots calls register(token, name,
\* code_path) for the next row, without is_site and without code_content:
\* Bot(token) raises on a name that has no colon, which register returns as a
\* failure; otherwise register suspends in get_me
ReplayRegister(c) ==
    /\ call[c].op = "replay" /\ call[c].pc = "loop"
    /\ call[c].todo # <<>>
    /\ SlotLeft
    /\ LET t == Head(call[c].todo)
       IN  IF IsSiteToken(t)
           THEN /\ call' = [call EXCEPT ![c].todo = Tail(@)]
                /\ ret' = Returned("register", "False", "token exception")
           ELSE /\ call' = [call EXCEPT ![c] =
                       [Carry(call[c]) EXCEPT !.op = "register",
                            !.pc = "get_me", !.token = t, !.content = "",
                            !.path = db[t].code_path,
                            !.todo = Tail(call[c].todo)]]
                /\ UNCHANGED ret
    /\ UNCHANGED <<bots, proc, dirs, relay, phase>>
    /\ UNCHANGED hostVars

\* the loop of load_bots is done
ReplayDone(c) ==
    /\ call[c].op = "replay" /\ call[c].pc = "loop"
    /\ call[c].todo = <<>>
    /\ call' = [call EXCEPT ![c] = NoCall]
    /\ ret' = Returned("replay", "done", "")
    /\ UNCHANGED <<bots, proc, dirs, relay, phase>>
    /\ UNCHANGED hostVars

\* ------------------------------------------------------------ rate limiter
\* (now - t).seconds of a clock that does not go back
Seconds(d) == d % DaySeconds
\* lines 821-825: the entries RateLimitMiddleware keeps at time n
Kept(ts, n) == SelectSeq(ts, LAMBDA t : Seconds(n - t) < RateLimitWindow)
\* The test of line 830 with > in place of >=.
OverLimit_Above(ts) == Len(ts) > RateLimitActions
\* line 830: len(self.users[user_id]) >= self.rate_limit
OverLimit(ts) == Len(ts) >= RateLimitActions
\* the handler runs of the window that ends at time n
InWindow(ts, n) == SelectSeq(ts, LAMBDA t : n - t < RateLimitWindow)

\* RateLimitMiddleware.__call__ for a message of user u, lines 815-840: no
\* await lies between reading the clock and the append; a rejected message is
\* answered with the error text and the handler is not called.
Message(u) ==
    /\ LET kept == Kept(users[u], now)
       IN  IF OverLimit(kept)
           THEN /\ users' = [users EXCEPT ![u] = kept]
                /\ ret' = Returned("message", "rejected", "error")
                /\ UNCHANGED handled
           ELSE /\ users' = [users EXCEPT ![u] = Append(kept, now)]
                /\ handled' = [handled EXCEPT ![u] = Append(@, now)]
                /\ ret' = Returned("message", "handled", "")
    /\ UNCHANGED <<bots, proc, dirs, relay, call, phase, db, now, pipe, task>>

\* Time passes: the clock advances by d seconds.
ClockSteps == {RateLimitWindow \div 2, DaySeconds}
Tick(d) ==
    /\ now + d < 2 * DaySeconds
    /\ Seconds(now + d) <= MaxClock
    /\ now' = now + d
    /\ handled' = [u \in Users |-> InWindow(handled[u], now')]
    /\ UNCHANGED <<bots, proc, dirs, relay, call, ret, phase,
                   db, users, pipe, task>>

\* ---------------------------------------------------------- specifications
\* register is entered with one of the payloads PL
RegisterStart(c, PL) ==
    \/ \E t \in SiteTokens, pl \in PL : RegisterSite(c, t, pl[1], pl[2])
    \/ \E t \in Tokens, pl \in PL : RegisterBot(c, t, pl[1], pl[2])

\* register resumes after an await
RegisterResume(c) ==
    \/ RegisterInvalidToken(c)
    \/ RegisterGotMe(c)
    \/ RegisterLaunched(c)

Unregister(c) ==
    \/ \E t \in Tokens : UnregisterStart(c, t)
    \/ UnregisterWaited(c)
    \/ UnregisterTimedOut(c)

Shutdown(c) ==
    \/ ShutdownStart(c)
    \/ ShutdownWaited(c)
    \/ ShutdownTimedOut(c)

\* site_proxy serving the requests RQ, the children answering with RS
Proxy(c, RQ, RS) ==
    \/ \E seg \in Segments, rq \in RQ : ProxyLookup(c, seg, rq[1], rq[2])
    \/ \E rs \in RS : ProxyConnected(c, rs[1], rs[2])
    \/ ProxyAnswered(c)
    \/ ProxyFailed(c)
    \/ ProxyTimedOut(c)

Environment ==
    \/ \E p \in Pids : ChildExit(p)
    \/ \E p \in Pids, s \in Streams : RelayEOF(p, s)

\* The supervisor: registrations, unregistrations and shutdown, interleaved at
\* their await points, and the children.
Next ==
    \/ \E c \in Calls : RegisterStart(c, Payloads)
    \/ \E c \in Calls : RegisterResume(c)
    \/ \E c \in Calls : Unregister(c)
    \/ \E c \in Calls : Shutdown(c)
    \/ Environment

Spec == Init /\ [][Next]_vars

\* The router: proxy requests interleaved with registrations and
\* unregistrations of sites.
ProxyNext ==
    \/ \E c \in Calls, t \in SiteTokens :
          RegisterSite(c, t, DefaultPayload[1], DefaultPayload[2])
    \/ \E c \in Calls : RegisterLaunched(c)
    \/ \E c \in Calls : Unregister(c)
    \/ \E c \in Calls : Proxy(c, OneRequest, OneResponse)
    \/ Environment

ProxySpec == Init /\ [][ProxyNext]_vars

\* One request at a time, with at most SoloProcs children in the process table.
SoloSlotLeft == Cardinality(Forked) + Cardinality(InFlightRegisters) < SoloProcs
SoloNext ==
    \/ \E c \in 1..SoloCalls : SoloSlotLeft /\ RegisterStart(c, Payloads)
    \/ \E c \in 1..SoloCalls : RegisterResume(c)
    \/ \E c \in 1..SoloCalls : Unregister(c)
    \/ Environment

SoloSpec == Init /\ [][SoloNext]_vars

\* The same, with the scheduling the event loop guarantees: a coroutine whose
\* await can complete is resumed (get_me answers or times out after 10 s, the
\* grace wait ends after 5 s at the latest, a closed stream reads as EOF).
\* Nothing obliges a request to arrive or a child to exit.
SoloFairness ==
    /\ WF_vars(\E c \in Calls : RegisterResume(c))
    /\ WF_vars(\E c \in Calls : UnregisterWaited(c) \/ UnregisterTimedOut(c))
    /\ WF_vars(\E p \in Pids, s \in Streams : RelayEOF(p, s))

FairSoloSpec == SoloSpec /\ SoloFairness

\* The router serving one request at a time, over registrations and the
\* exits of the children (the log relays play no part in routing).
SoloRouterNext ==
    \/ \E c \in 1..SoloCalls : SoloSlotLeft /\ RegisterStart(c, {DefaultPayload})
    \/ \E c \in 1..SoloCalls : RegisterResume(c)
    \/ \E c \in 1..SoloCalls : Proxy(c, Requests, Responses)
    \/ \E p \in Pids : ChildExit(p)

SoloRouterSpec == Init /\ [][SoloRouterNext]_vars

Feed(c) ==
    \/ \E t \in Tokens, body \in Bodies : FeedStart(c, t, body)
    \/ FeedParsed(c)

\* The direct feed serving one request at a time, over registrations and the
\* exits of the children.
SoloFeedNext ==
    \/ \E c \in 1..SoloCalls : SoloSlotLeft /\ RegisterStart(c, {DefaultPayload})
    \/ \E c \in 1..SoloCalls : RegisterResume(c)
    \/ \E c \in 1..SoloCalls : Feed(c)
    \/ \E p \in Pids : ChildExit(p)

SoloFeedSpec == Init /\ [][SoloFeedNext]_vars

\* The payloads register is staged with in StageSpec: none, inline text, inline
\* text together with a file path, archives and single files
BothText == "print(2)"
StagePayloads ==
    {<<"", "">>, <<InlineText, "">>, <<BothText, "bot.js">>}
        \cup {<<"", path>> : path \in Paths}

\* Staging and launching of sites, one registration at a time: their
\* directories are staged again and again (staging is the same for a bot,
\* once get_me has answered).
SoloStageNext ==
    \/ \E c \in 1..SoloCalls, t \in SiteTokens, pl \in StagePayloads :
          SoloSlotLeft /\ RegisterSite(c, t, pl[1], pl[2])
    \/ \E c \in 1..SoloCalls : RegisterLaunched(c)

SoloStageSpec == Init /\ [][SoloStageNext]_vars

\* register for a site whose payload is inline text, nothing, both a text
\* and a file, or a single file
TextPayloads ==
    {<<"", "">>, <<InlineText, "">>, <<BothText, "bot.js">>, <<"", "bot.js">>}
SoloTextNext ==
    \/ \E c \in 1..SoloCalls, t \in SiteTokens, pl \in TextPayloads :
          SoloSlotLeft /\ RegisterSite(c, t, pl[1], pl[2])
    \/ \E c \in 1..SoloCalls : RegisterLaunched(c)
SoloTextSpec == Init /\ [][SoloTextNext]_vars

Deploy(c) ==
    \/ \E u \in Users, t \in AllTokens, pl \in {<<InlineText, "">>} :
          DeployStart(c, u, t, pl[1], pl[2])
    \/ DeployRegister(c)
    \/ DeployAddBot(c)

Replay(c) ==
    \/ ReplayRegister(c)
    \/ ReplayDone(c)

\* The platform over its restarts: deploys handled one at a time, the replay
\* at startup, and the exits of the children.
HostNext ==
    \/ \E c \in 1..SoloCalls : Deploy(c)
    \/ \E c \in 1..SoloCalls : RegisterResume(c)
    \/ \E c \in 1..SoloCalls : Restart(c)
    \/ \E c \in 1..SoloCalls : Replay(c)
    \/ \E p \in Pids : ChildExit(p)

HostSpec == Init /\ [][HostNext]_vars

\* The direct feed serving one request at a time for the apps the users
\* deploy.
CountNext ==
    \/ \E c \in 1..SoloCalls : Deploy(c)
    \/ \E c \in 1..SoloCalls : RegisterResume(c)
    \/ \E c \in 1..SoloCalls : Feed(c)
    \/ \E p \in Pids : ChildExit(p)
CountSpec == Init /\ [][CountNext]_vars

Remove(c) ==
    \/ \E u \in Users, username \in Usernames : RemoveStart(c, u, username)
    \/ RemoveUnregister(c)
    \/ RemoveResume(c, FALSE) \/ RemoveResume(c, TRUE)
    \/ RemoveBot(c)

\* The users of the main bot deploying and removing apps, one handler at a
\* time.
OwnerNext ==
    \/ \E c \in 1..SoloCalls : Deploy(c)
    \/ \E c \in 1..SoloCalls : RegisterResume(c)
    \/ \E c \in 1..SoloCalls : Remove(c)
    \/ \E p \in Pids : ChildExit(p)
OwnerSpec == Init /\ [][OwnerNext]_vars

\* the messages of the users of the main bot and the clock
RateNext ==
    \/ \E u \in Users : Message(u)
    \/ \E d \in ClockSteps : Tick(d)
RateSpec == Init /\ [][RateNext]_vars

\* One workload at a time, its output and its two log relays.
LogNext ==
    \/ \E c \in 1..SoloCalls :
          Forked = {} /\ RegisterSite(c, "siteA", "", "")
    \/ \E c \in 1..SoloCalls : RegisterLaunched(c)
    \/ \E p \in Pids, s \in Streams, line \in Lines : ChildWrite(p, s, line)
    \/ \E p \in Pids : ChildExit(p)
    \/ \E p \in Pids, s \in Streams : RelayStep(p, s)
\* The event loop resumes a relay whose await can complete: readline with a
\* line or the end of file, the sleep, and send_message, which answers,
\* fails or times out.
LogFairness ==
    /\ \A p \in Pids, s \in Streams :
          /\ WF_vars(RelayRead(p, s))
          /\ WF_vars(RelaySent(p, s) \/ RelaySendFailed(p, s))
          /\ WF_vars(RelaySlept(p, s))
          /\ WF_vars(RelayEOF(p, s))
FairLogSpec == Init /\ [][LogNext]_vars /\ LogFairness

\* ------------------------------------------------------------------ claims
\* A child counts as launched once create_subprocess_exec has returned it.
Launched(p) ==
    /\ proc[p].st # "none"
    /\ ~\E c \in Calls : /\ call[c].op = "register" /\ call[c].pc = "spawn"
                         /\ call[c].pid = p
Recorded(p) == \E i \in 1..Len(bots) : bots[i].process = p
Sites == {i \in 1..Len(bots) : bots[i].type = "site"}

\* C1: no two Site records of the registry hold the same allocated port.
C1_SitePortsDistinct ==
    \A i, j \in Sites : i # j => bots[i].port # bots[j].port

\* C2: a record exists exactly for the children that were launched and are
\* not yet known to have terminated.
C2_RecordIffLiveProcess ==
    \A p \in Pids : Recorded(p) <=> (Launched(p) /\ proc[p].st = "running")

\* C3: no identity ever has two launched children that have not terminated.
C3_OneLiveWorkloadPerIdentity ==
    \A p, q \in Pids :
        (p # q /\ Launched(p) /\ Launched(q)
              /\ proc[p].st = "running" /\ proc[q].st = "running")
            => proc[p].tok # proc[q].tok

\* C4: once a recorded child has exited, its record is eventually removed.
C4_ExitedChildRecordRemoved ==
    \A p \in Pids : (Recorded(p) /\ proc[p].st = "gone") ~> ~Recorded(p)

\* C5: a proxy lookup never resolves to the record of an identity whose
\* unregister has requested termination and not yet deleted the record.
C5_NoRouteDuringUnregister ==
    [][\A c, u \in Calls :
          (call[c].pc = "idle" /\ call'[c].op = "proxy" /\ call'[c].pc = "fwd")
            => ~(/\ call[u].op = "unregister" /\ call[u].pc = "wait"
                 /\ call[u].token = call'[c].token)]_vars

\* C6: two registrations of different Site identities that are in flight
\* together hold distinct ports and distinct working directories.
C6_ConcurrentSitesDistinct ==
    \A c, d \in Calls :
        (/\ c # d
         /\ call[c].op = "register" /\ call[c].pc = "spawn" /\ call[c].is_site
         /\ call[d].op = "register" /\ call[d].pc = "spawn" /\ call[d].is_site
         /\ call[c].token # call[d].token)
            => /\ call[c].port # call[d].port
               /\ TargetDir(call[c].token) # TargetDir(call[d].token)

\* C7: a register that ends with a staging or launch failure returns False
\* and leaves the registry, the children and the relays as they were.
RegisterStep(c) == RegisterStart(c, Payloads) \/ RegisterResume(c)
StageOrLaunchFailure ==
    {"Could not find entry point", "stage exception", "spawn exception"}
C7_FailedRegisterNoRecord ==
    [][\A c \in Calls :
          (/\ ret'.msg \in StageOrLaunchFailure
           /\ call[c].pc \in {"idle", "get_me"} /\ call'[c].pc = "idle"
           /\ RegisterStep(c))
            => /\ ret'.op = "register" /\ ret'.result = "False"
               /\ bots' = bots /\ proc' = proc /\ relay' = relay]_vars
C7_Witness ==
    /\ ret.op = "register" /\ ret.result = "False"
    /\ ret.msg = "Could not find entry point"
    /\ \A p \in Pids : proc[p].st = "none"

\* C8: an unregister that waited on a live child returns True, with the
\* record absent and the child exited or killed.
C8_UnregisterLiveReturnsTrue ==
    [][\A c \in Calls :
          (call[c].op = "unregister" /\ call[c].pc = "wait" /\ call'[c].pc = "idle")
            => /\ ret'.op = "unregister" /\ ret'.result = "True"
               /\ ~Has(bots', call[c].token)
               /\ (ret'.msg = "killed" \/ proc[call[c].pid].st = "gone")]_vars

\* C9: unregister of an identity without a record returns False and changes
\* nothing.
C9_UnregisterUnknownNoEffect ==
    [][\A c \in Calls, t \in Tokens :
          (~Has(bots, t) /\ call[c].pc = "idle" /\ UnregisterStart(c, t))
            => /\ ret' = Returned("unregister", "False", "")
               /\ UNCHANGED <<bots, proc, dirs, relay, call, phase>>]_vars
C9_Witness ==
    /\ ret = Returned("unregister", "False", "")
    /\ Len(bots) > 0

\* C10: unregister of an identity whose child is already gone returns True at
\* once, without raising and without waiting, and removes the record.
C10_UnregisterGoneIsSuccess ==
    [][\A c \in Calls, t \in Tokens :
          (/\ Has(bots, t) /\ proc[Get(bots, t).process].st = "gone"
           /\ call[c].pc = "idle" /\ UnregisterStart(c, t))
            => /\ ret'.op = "unregister" /\ ret'.result = "True"
               /\ call'[c].pc = "idle"
               /\ ~Has(bots', t)]_vars
C10_Witness ==
    /\ ret = Returned("unregister", "True", "gone")
    /\ bots = <<>>

\* C11: shutdown completes normally (it returns, no exception leaves its
\* loop before every identity was reached) and the registry is empty when it
\* does, also when an unregister of one of the identities runs concurrently.
C11_ShutdownCompletesEmpty ==
    [][\A c \in Calls :
          (/\ phase # "down" /\ phase' = "down"
           /\ call[c].op \in {"none", "shutdown"} /\ call'[c].pc = "idle"
           /\ Shutdown(c))
            => /\ ret' = Returned("shutdown", "done", "")
               /\ bots' = <<>>]_vars

\* C12: at the step where register returns success, the registry holds a
\* record for the identity whose process handle is the child that this call
\* launched.
C12_RegisteredRecordIsLaunchedChild ==
    [][\A c \in Calls :
          (/\ call[c].op = "register" /\ call[c].pc = "spawn"
           /\ call'[c].pc = "idle"
           /\ ret'.op = "register" /\ ret'.result = "True")
            => /\ Has(bots', call[c].token)
               /\ Get(bots', call[c].token).process = call[c].pid]_vars
C12_Witness ==
    /\ ret.op = "register" /\ ret.result = "True"
    /\ \E i \in 1..Len(bots) :
          /\ bots[i].process \in Pids
          /\ proc[bots[i].process].st = "running"
          /\ proc[bots[i].process].tok = bots[i].token

\* C13: a proxy request whose segment is the token or the stored username of
\* a Site record with a running child is forwarded to that record's own port,
\* with the remaining path and the query string, whatever else is registered.
C13_ProxyForwardsToOwnPort ==
    [][\A c \in Calls, seg \in Segments, rq \in OneRequest :
          \A i \in 1..Len(bots) :
            (/\ call[c].pc = "idle"
             /\ bots[i].type = "site"
             /\ proc[bots[i].process].st = "running"
             /\ (bots[i].token = seg \/ bots[i].username = seg)
             /\ ProxyLookup(c, seg, rq[1], rq[2]))
              => /\ call'[c].op = "proxy" /\ call'[c].pc = "fwd"
                 /\ call'[c].url = Url(bots[i].port, rq[1], rq[2])]_vars

\* C14: when the child answered a forwarded request and its body was read,
\* the router's response has the child's status and the child's body.
ProxyErrors == {"Proxy Error: connection", "Proxy Error: timeout"}
C15_ProxyUnknownIs404 ==
    [][\A c \in 1..SoloCalls, seg \in Segments, rq \in Requests :
          (/\ call[c].pc = "idle"
           /\ \A i \in Matches(bots, seg) : bots[i].port = 0
           /\ ProxyLookup(c, seg, rq[1], rq[2]))
            => /\ ret' = Returned("proxy", "404", "Site Not Found")
               /\ UNCHANGED <<bots, proc, dirs, relay, call, phase>>]_vars
C15_Witness ==
    /\ ret = Returned("proxy", "404", "Site Not Found")
    /\ Len(bots) = 1 /\ bots[1].type = "bot" /\ bots[1].port = 0
    /\ proc[bots[1].process].st = "running"

C17_ProxyTimeoutIs504 ==
    [][\A c \in Calls :
          (/\ call[c].op = "proxy" /\ call[c].pc \in {"fwd", "read"}
           /\ ProxyTimedOut(c))
            => ret'.op = "proxy" /\ ret'.result = "504"]_vars

\* C18: a direct-feed request for a token without a record is answered 404
\* whatever its body is, and changes no record, counter or process.
C18_FeedUnknownIs404 ==
    [][\A c \in Calls :
          (/\ call[c].op = "feed" /\ call[c].pc = "json"
           /\ ~Has(bots, call[c].token)
           /\ call'[c].pc = "idle")
            => /\ ret' = Returned("feed", "404", "")
               /\ UNCHANGED <<bots, proc, dirs, relay, phase>>]_vars

\* C19: a direct-feed request with an update for a token whose record has a
\* running child is answered 200 with the success body, and the update
\* counter of the record is one more than before.
C19_FeedLiveIsHandled ==
    [][\A c \in Calls :
          (/\ call[c].op = "feed" /\ call[c].pc = "json"
           /\ JsonValid(call[c].body)
           /\ Has(bots, call[c].token)
           /\ proc[Get(bots, call[c].token).process].st = "running"
           /\ call'[c].pc = "idle")
            => /\ ret' = Returned("feed", "200", OkBody)
               /\ "total_updates" \in DOMAIN Get(bots', call[c].token)
               /\ "total_updates" \in DOMAIN Get(bots, call[c].token)
               /\ Get(bots', call[c].token).total_updates
                    = Get(bots, call[c].token).total_updates + 1]_vars

\* C20: a direct-feed request during which process_update fails internally
\* is answered with status 500.
C20_FeedFailureIs500 ==
    [][\A c \in Calls :
          (/\ call[c].op = "feed" /\ call[c].pc = "json"
           /\ JsonValid(call[c].body)
           /\ ProcessUpdate(bots, call[c].token, call[c].body).kind = "error"
           /\ call'[c].pc = "idle")
            => ret'.op = "feed" /\ ret'.result = "500"]_vars

\* C21: when the replay at startup has finished, every identity the table
\* listed as active has a registry record of its kind, a site with a port.
C21_ReplayRestoresActive ==
    [][\A c \in Calls :
          (/\ call[c].op = "replay" /\ call[c].pc = "loop"
           /\ call[c].todo = <<>>
           /\ call'[c].pc = "idle")
            => \A i \in 1..Len(call[c].listed) :
                 LET t == call[c].listed[i]
                 IN  /\ Has(bots', t)
                     /\ Get(bots', t).type
                          = (IF IsSiteToken(t) THEN "site" ELSE "bot")
                     /\ IsSiteToken(t) => Get(bots', t).port # 0]_vars

\* The step of register that stages the payload <<content, path>> of
\* identity t and calls create_subprocess_exec.
StageStep(c, t, content, path) ==
    \/ /\ call[c].pc = "idle" /\ IsSiteToken(t)
       /\ RegisterSite(c, t, content, path)
    \/ /\ call[c].op = "register" /\ call[c].pc = "get_me"
       /\ call[c].token = t
       /\ call[c].content = content /\ call[c].path = path
       /\ RegisterGotMe(c)
\* the child this step forked, once the step has called create_subprocess_exec
ForkedBy(c) == proc'[call'[c].pid]

\* C22: with inline text the entry file main.py holds exactly that text and
\* a file path given with it is ignored (no other file of the directory
\* changes); with neither, main.py holds the built-in default workload; both
\* are launched with the Python runtime.
C22_InlineTextWins ==
    [][\A c \in Calls, t \in Tokens, pl \in TextPayloads :
          (/\ (pl[1] # "" \/ pl[2] = "")
           /\ StageStep(c, t, pl[1], pl[2]))
            => /\ dirs'[TargetDir(t)] =
                    [dirs[TargetDir(t)] EXCEPT !["main.py"] =
                        IF pl[1] # "" THEN pl[1] ELSE "DEFAULT_SERVICE_CODE"]
               /\ call'[c].pc = "spawn"
                    => ForkedBy(c).cmd = <<"python", "main.py">>]_vars
C22_Witness ==
    \E p \in Pids :
        /\ proc[p].st = "running" /\ proc[p].cmd = <<"python", "main.py">>
        /\ dirs[proc[p].cwd]["main.py"] = BothText
        /\ dirs[proc[p].cwd]["index.js"] = NoFile

\* C23: for an archive the entry point is the first of main.py, index.js,
\* package.json that the directory holds after extraction, whatever order
\* the listing has, and register fails with the no-entry-point error when it
\* holds none of them.
PriorityEntry(d) ==
    IF d["main.py"] # NoFile THEN "main.py"
    ELSE IF d["index.js"] # NoFile THEN "index.js"
    ELSE IF d["package.json"] # NoFile THEN "package.json"
    ELSE NoFile
C23_ArchiveEntryPriority ==
    [][\A c \in Calls, t \in Tokens, path \in Paths :
          (/\ EndsWith(path, ".zip") /\ Readable(path)
           /\ StageStep(c, t, "", path))
            => LET entry == PriorityEntry(dirs'[TargetDir(t)])
               IN  IF entry = NoFile
                   THEN /\ ret' = Returned("register", "False",
                                           "Could not find entry point")
                        /\ call'[c].pc = "idle"
                   ELSE call'[c].pc = "spawn"
                          => ForkedBy(c).cmd
                               = Cmd(RuntimeOfEntry(entry), entry)]_vars

\* C24: a single-file payload is launched with the runtime that goes with
\* the name it was staged under: main.py with python, index.js with node.
SingleFiles == {path \in Paths : ~EndsWith(path, ".zip")}
C24_RuntimeMatchesStagedName ==
    [][\A c \in Calls, t \in Tokens, path \in SingleFiles :
          (/\ StageStep(c, t, "", path)
           /\ call'[c].pc = "spawn")
            => /\ ForkedBy(c).cmd[2] = "main.py"
                    => ForkedBy(c).cmd[1] = "python"
               /\ ForkedBy(c).cmd[2] = "index.js"
                    => ForkedBy(c).cmd[1] = "node"]_vars

C26_AtMostThreeActive ==
    /\ \A u \in Users : Cardinality(ActiveOf(db, u)) <= MaxBotsPerUser
    /\ \A c \in Calls :
          (/\ call[c].caller = "deploy"
           /\ call[c].pc \in {"spawn", "add_bot"})
            => Cardinality(ActiveOf(db, call[c].owner) \ {call[c].token})
                 < MaxBotsPerUser

\* C27: at every moment at most RateLimitActions handler runs of one user lie
\* in the RateLimitWindow seconds that end now, and a message of a user with
\* that many runs in the window is answered with the error text without a
\* handler run.
C27_AtMostFivePerWindow ==
    /\ [](\A u \in Users : Len(handled[u]) <= RateLimitActions)
    /\ [][\A u \in Users :
             (/\ Len(handled[u]) >= RateLimitActions
              /\ Message(u))
               => /\ ret' = Returned("message", "rejected", "error")
                  /\ handled' = handled]_vars
C27_Witness ==
    \E u \in Users :
        /\ ret = Returned("message", "rejected", "error")
        /\ Len(handled[u]) = RateLimitActions
        /\ handled[u][1] # handled[u][RateLimitActions]
        /\ Len(users[u]) = RateLimitActions

\* C28: no unregister and no shutdown ends with an exception: an unregister
\* returns True or False and shutdown returns, however the calls interleave.
C28_RegistryOpsNeverRaise ==
    /\ ret.op = "unregister" => ret.result \in {"True", "False"}
    /\ ret.op = "shutdown" => ret.result = "done"

\* C29: no step of a log relay of identity I is taken in a state where the
\* launch of I's child has completed and the registry has no record of I.
C29_RecordVisibleToRelay ==
    [][\A p \in Pids, s \in Streams :
          (/\ s \in relay[p] /\ Launched(p)
           /\ RelayStep(p, s))
            => Has(bots, proc[p].tok)]_vars

\* C30: a relay whose stream is closed returns; a relay hands to send_message
\* only texts of 1 to TextCut characters, never that of a blank line; and
\* after a failed send_message it is back at readline with the unread lines
\* still to read.
C30_RelayForwardsAndEnds ==
    /\ \A p \in Pids, s \in Streams :
          (s \in relay[p] /\ proc[p].st = "gone") ~> (s \notin relay[p])
    /\ [](\A p \in Pids, s \in Streams :
            task[p][s].pc = "send_message"
              => task[p][s].text >= 1 /\ task[p][s].text <= TextCut)
    /\ [][\A p \in Pids, s \in Streams :
             /\ (/\ task[p][s].pc = "readline" /\ pipe[p][s] # <<>>
                  /\ Strip(Head(pipe[p][s])) = 0
                  /\ RelayRead(p, s))
                   => task'[p][s].pc = "readline"
             /\ (/\ task[p][s].pc = "send_message"
                  /\ task'[p][s].pc = "readline")
                   => /\ s \in relay'[p]
                      /\ pipe'[p][s] = pipe[p][s]]_vars
C30_Witness ==
    \E p \in Pids :
        /\ proc[p].st = "gone"
        /\ task[p]["stdout"] = [pc |-> "sleep", text |-> TextCut]
        /\ relay[p] = {"stdout"}

\* C37: a message of a user is rejected only when RateLimitActions handler
\* runs of that user lie in the RateLimitWindow seconds before it; older
\* accepted messages, however old, do not count.
C37_RejectedOnlyWhenFiveInWindow ==
    [][\A u \in Users :
          (/\ Message(u)
           /\ ret' = Returned("message", "rejected", "error")
           /\ handled' = handled)
            => Len(handled[u]) >= RateLimitActions]_vars

\* C34: the entry point launched for an archive payload is a file of that
\* archive, never a file that an earlier registration of the identity left in
\* the working directory.
EntryOf(cmd) == IF cmd[1] = "npm" THEN "package.json" ELSE cmd[2]
C34_EntryFromNewArchiveOnly ==
    [][\A c \in Calls, t \in Tokens, path \in Paths :
          (/\ EndsWith(path, ".zip") /\ Readable(path)
           /\ StageStep(c, t, "", path)
           /\ call'[c].pc = "spawn")
            => EntryOf(ForkedBy(c).cmd) \in ZipEntries(path)]_vars

\* C33: when the startup replay stages and launches an identity that was
\* deployed from inline text, the entry file keeps the deployed text and is
\* what the child runs.
C33_ReplayKeepsDeployedText ==
    [][\A c \in Calls :
          (/\ call[c].caller = "replay"
           /\ call[c].op = "register" /\ call[c].pc = "get_me"
           /\ call'[c].pc = "spawn"
           /\ dirs[TargetDir(call[c].token)]["main.py"] = InlineText)
            => /\ dirs'[TargetDir(call[c].token)]["main.py"] = InlineText
               /\ ForkedBy(c).cmd = <<"python", "main.py">>]_vars

\* C35: the removal handler unregisters an app and makes its row inactive
\* only on a message of the user who owns the row.
C35_OnlyOwnerRemoves ==
    [][\A c \in Calls :
          (/\ call[c].op = "remove"
           /\ \/ bots' # bots
              \/ db'[call[c].token].active # db[call[c].token].active)
            => db[call[c].token].owner = call[c].owner]_vars

\* C36: the environment of every child holds its own identity as BOT_TOKEN
\* and, when a port was allocated, that port as PORT, and no value of it is
\* the token of the main bot or the identity of another workload.
C36_ChildEnvironmentOwnOnly ==
    \A p \in Pids :
        proc[p].st # "none"
          => /\ <<"BOT_TOKEN", proc[p].tok>> \in proc[p].env
             /\ proc[p].port # 0
                  => <<"PORT", ToString(proc[p].port)>> \in proc[p].env
             /\ \A e \in proc[p].env :
                   /\ e[2] # MainBotToken
                   /\ e[2] \notin AllTokens \ {proc[p].tok}

\* C31: the totals of a row never go down, and a direct-feed event for a
\* registered workload that has an active row raises the sum of its two
\* totals by exactly one.
C31_CountersCountEachEvent ==
    [][/\ \A t \in AllTokens :
            /\ db'[t].total_updates >= db[t].total_updates
            /\ db'[t].total_messages >= db[t].total_messages
       /\ \A c \in Calls :
            (/\ call[c].op = "feed" /\ call[c].pc = "json"
             /\ JsonValid(call[c].body)
             /\ Has(bots, call[c].token)
             /\ db[call[c].token].active
             /\ call'[c].pc = "idle")
              => db'[call[c].token].total_updates
                   + db'[call[c].token].total_messages
                 = db[call[c].token].total_updates
                   + db[call[c].token].total_messages + 1]_vars

\* C32: once shutdown has returned the registry is empty, and stays empty,
\* and no register call that was in flight holds a running child.
C32_NothingLeftAfterShutdown ==
    phase = "down"
      => /\ bots = <<>>
         /\ \A c \in Calls :
               (call[c].op = "register" /\ call[c].pc = "spawn")
                 => proc[call[c].pid].st # "running"

====
